---- MODULE Spec2Model ----
(***************************************************************************)
(* Model of docs-sphinx/_static/iframes/easy-install/generate.py: the      *)
(* easy-install fastener example (WoodScrew, Anchor, EasyInstallFastener,  *)
(* ConnectedPlanks), the temporary catalogue and the export / display      *)
(* section.                                                                *)
(*                                                                         *)
(* Lengths are integers in tenths of a millimetre (2.5 mm is 25), ratios   *)
(* are integers in hundredths (0.99 is 99).                                *)
(***************************************************************************)
EXTENDS Integers, Sequences, FiniteSets, TLC

VARIABLES
    pc,          \* position of the script: the statement it executes next
    env_name,    \* cqparts.utils.env.env_name
    file_exists, \* whether the file named catalogue_filename exists
    catalogue,   \* the catalogue's items: sequence of [id, criteria, obj]
    idx,         \* index of the running `for` loop (screws, anchors)
    parts,       \* the part instances created so far: name -> instance
    exports,     \* the files written by exporter('gltf'), in order
    displayed,   \* the objects handed to display(), in order
    cp_coords,   \* cp.world_coords ("unset" until line 464)
    fpc,         \* position of the fastener's build inside display(cp)
    fparts,      \* the parts given to EasyInstallFastener(parts=...)
    eval,        \* the fastener's evaluator effects (self.evaluator.eval)
    components,  \* the keys of the selector's components mapping
    effect,      \* index of the effect the running Applicator loop is at
    cuts,        \* the cuts apply_alterations made: <<part, cutter>>, in order
    frame,       \* the local variables of the make() that is running
    raised,      \* the exception that ended the script ("none" if none)
    attempts,    \* how many times each statement was started
    log          \* the script's effects on the outside world, in order

vars == <<pc, env_name, file_exists, catalogue, idx, parts, exports,
          displayed, cp_coords, fpc, fparts, eval, components, effect, cuts,
          frame, raised, attempts, log>>

----------------------------------------------------------------------------
(* Parameters *)

\* cqparts.params.PositiveFloat: the range check of a declared parameter
PositiveFloat(v) == v >= 0

\* class WoodScrew: the declared parameters and their defaults
WoodScrewDefaults ==
    [cls |-> "WoodScrew", head |-> "cheese", drive |-> "phillips",
     thread |-> "triangular", neck_diam |-> 20, neck_length |-> 400,
     length |-> 500, neck_exposed |-> 20, bore_diam |-> 60]

\* class Anchor: the declared parameters and their defaults
AnchorDefaults ==
    [cls |-> "Anchor", drive |-> "cross", diameter |-> 100, height |-> 50,
     neck_diameter |-> 20, head_diameter |-> 40, spline_point_count |-> 10,
     ratio_start |-> 99, ratio_end |-> 70]

\* class WoodPanel: the declared parameters and their defaults
WoodPanelDefaults ==
    [cls |-> "WoodPanel", thickness |-> 150, width |-> 1000, length |-> 1000]

\* ParametricObject.__init__: keyword arguments override the defaults
Override(defaults, kw) ==
    [k \in DOMAIN defaults |-> IF k \in DOMAIN kw THEN kw[k] ELSE defaults[k]]

\* the scalar (PositiveFloat) parameters of each class
Scalars(cls) ==
    CASE cls = "WoodScrew" ->
            {"neck_diam", "neck_length", "length", "neck_exposed", "bore_diam"}
      [] cls = "Anchor" ->
            {"diameter", "height", "neck_diameter", "head_diameter"}
      [] OTHER -> {"thickness", "width", "length"}

\* a parameter set passes the range constraints declared with the fields
ParamsValid(p) ==
    /\ \A k \in Scalars(p.cls) : PositiveFloat(p[k])
    /\ p.cls = "Anchor" =>
         /\ p.spline_point_count \in 4..200
         /\ p.ratio_start \in 50..99
         /\ p.ratio_end \in 1..80

\* a freshly constructed part: its parameters, no geometry built, at origin
NewPart(p) == [params |-> p, local_obj |-> <<>>, world_coords |-> 0]

----------------------------------------------------------------------------
(* Anchor mates and cutters, WoodScrew cutter (z along the screw's axis) *)

\* Anchor.mate_center: origin (0, 0, -height / 2)
mate_center(anchor) == -(anchor.height \div 2)

\* Anchor.mate_base: origin (0, 0, -height)
mate_base(anchor) == -anchor.height

\* WoodScrew.mate_threadstart: origin (0, 0, -neck_length)
mate_threadstart(screw) == -screw.neck_length

\* abs() of a vector along the axis
Abs(x) == IF x < 0 THEN -x ELSE x

\* WoodScrew.make_cutter: the bore over the neck, the pilot hole to -length
WoodScrewCutter(screw) ==
    [of |-> "screw", diam |-> screw.bore_diam, top |-> 0,
     neck |-> -screw.neck_length, bottom |-> -screw.length]

\* Anchor.make_cutter: a cylinder from -height up, 1 m of bore depth
AnchorCutter(anchor) ==
    [of |-> "anchor", diam |-> anchor.diameter, top |-> 10000,
     neck |-> 0, bottom |-> -anchor.height]

----------------------------------------------------------------------------
(* EasyInstallFastener: the evaluator's effects, Selector, Applicator *)

\* positions along the evaluation vector: multiples of 2.5 mm
MaxPos == 3
Positions == {k * 25 : k \in 0..MaxPos}

\* VectorEvaluator effect: the segment of the vector inside one part
Effects(ps) ==
    {[part |-> p, start_point |-> a, end_point |-> b] :
        p \in ps, a \in Positions, b \in Positions}

\* VectorEvaluator.eval: the effects of the parts the vector passes through,
\* one per part, each of positive length, ordered by their start
EvalLists(ps, n) ==
    {ev \in UNION {[1..k -> Effects(ps)] : k \in 0..n} :
        /\ \A i \in DOMAIN ev : ev[i].start_point < ev[i].end_point
        /\ \A i, j \in DOMAIN ev :
              i < j => /\ ev[i].part # ev[j].part
                       /\ ev[i].start_point <= ev[j].start_point}

\* ScrewArgs with the thread as long as the whole last effect
ScrewArgsFullThread(ev) ==
    LET anchor_slack == Abs(mate_base(AnchorDefaults) - mate_center(AnchorDefaults))
        neck_length ==
            Abs(ev[Len(ev)].start_point - ev[1].start_point) - anchor_slack
    IN  [neck_length |-> neck_length,
         length |-> neck_length
                      + Abs(ev[Len(ev)].end_point - ev[Len(ev)].start_point)]

\* ScrewArgs with the anchor's slack left out of the neck
ScrewArgsNoSlack(ev) ==
    LET neck_length == Abs(ev[Len(ev)].start_point - ev[1].start_point)
        thread_maxlength ==
            Abs(ev[Len(ev)].end_point - ev[Len(ev)].start_point)
    IN  [neck_length |-> neck_length,
         length |-> neck_length + (thread_maxlength * 8) \div 10]

\* Selector.get_components, lines 243-262: the screw's dimensions.
\* thread_length is 80% of the last effect's length.
ScrewArgs(ev) ==
    LET anchor == AnchorDefaults
        v_rel_center == mate_center(anchor)
        v_rel_screwhead == mate_base(anchor)
        anchor_slack == Abs(v_rel_screwhead - v_rel_center)
        effect_length == Abs(ev[Len(ev)].start_point - ev[1].start_point)
        neck_length == effect_length - anchor_slack
        thread_maxlength ==
            Abs(ev[Len(ev)].end_point - ev[Len(ev)].start_point)
        thread_length == (thread_maxlength * 8) \div 10
    IN  [neck_length |-> neck_length, length |-> neck_length + thread_length]

\* Selector.get_components: the outcome. eval[-1] of an empty list raises
\* IndexError; WoodScrew(...) raises when a parameter is out of range.
GetComponents(ev) ==
    IF ev = <<>> THEN [raised |-> "IndexError"]
    ELSE LET screw == Override(WoodScrewDefaults, ScrewArgs(ev))
         IN  IF ParamsValid(screw)
             THEN [raised |-> "none", anchor |-> AnchorDefaults, screw |-> screw]
             ELSE [raised |-> "ParameterError"]

\* Selector.get_constraints: along the vector, the screw's mate_threadstart
\* sits on the last effect's start and the anchor's screw-head mate on the
\* screw's origin
ScrewCoords(ev, screw) == ev[Len(ev)].start_point + mate_threadstart(screw)

----------------------------------------------------------------------------
(* The catalogue *)

\* tempfile.mktemp(): the name of a file that does not exist
catalogue_filename == "tmpfile"

\* the `screws` list
screws ==
    << [id |-> "screw_30",
        obj_params |-> [neck_exposed |-> 50, length |-> 400, neck_length |-> 300],
        criteria |-> [type |-> "screw", thread_length |-> 100,
                      compatible_anchor |-> "anchor_10"]],
       [id |-> "screw_50",
        obj_params |-> [neck_exposed |-> 60, length |-> 650, neck_length |-> 500],
        criteria |-> [type |-> "screw", thread_length |-> 150,
                      compatible_anchor |-> "anchor_15"]] >>

\* the `anchors` list with an id no screw names
anchorsMisnamed ==
    << [id |-> "anchor_10",
        obj_params |-> [diameter |-> 100, height |-> 70],
        criteria |-> [type |-> "anchor"]],
       [id |-> "anchor_12",
        obj_params |-> [diameter |-> 150, height |-> 100],
        criteria |-> [type |-> "anchor"]] >>

\* the `anchors` list
anchors ==
    << [id |-> "anchor_10",
        obj_params |-> [diameter |-> 100, height |-> 70],
        criteria |-> [type |-> "anchor"]],
       [id |-> "anchor_15",
        obj_params |-> [diameter |-> 150, height |-> 100],
        criteria |-> [type |-> "anchor"]] >>

\* the ids of the catalogue's items
Ids(cat) == {cat[i].id : i \in DOMAIN cat}

\* JSONCatalogue.add: a new item (id, criteria, serialized part); an id
\* that is already in the catalogue is refused
CatalogueAdd(cat, id, criteria, obj) ==
    Append(cat, [id |-> id, criteria |-> criteria, obj |-> obj])

----------------------------------------------------------------------------
(* The script, top to bottom *)

\* one more start of the statement the script is at
Started(key) ==
    IF key \in DOMAIN attempts THEN [attempts EXCEPT ![key] = @ + 1]
    ELSE attempts @@ (key :> 1)

\* Raise with the exception caught and the statement tried again
RaiseRetry(exc) ==
    /\ raised' = exc
    /\ UNCHANGED <<pc, fpc>>

\* an exception propagates to the top of the script, which ends
Raise(exc) ==
    /\ raised' = exc
    /\ pc' = "failed"
    /\ fpc' = IF fpc = "idle" THEN "idle" ELSE "failed"

\* Branch with the `elif` an `else`
BranchElse(env) ==
    IF env = "cmdline" THEN "export_screw" ELSE "cp_new"

\* the statement after the model definitions: the branch on env_name
Branch(env) ==
    IF env = "cmdline" THEN "export_screw"
    ELSE IF env = "freecad" THEN "cp_new" ELSE "done"

Init ==
    /\ pc = "catalogue"
    /\ env_name \in {"cmdline", "freecad", "other"}
    /\ file_exists = FALSE
    /\ catalogue = <<>>
    /\ idx = 0
    /\ parts = <<>>
    /\ exports = <<>>
    /\ displayed = <<>>
    /\ cp_coords = <<>>
    /\ fpc = "idle"
    /\ fparts = {}
    /\ eval = <<>>
    /\ components = {}
    /\ effect = 0
    /\ cuts = <<>>
    /\ frame = <<>>
    /\ raised = "none"
    /\ attempts = <<>>
    /\ log = <<>>

\* lines 370-371: catalogue = JSONCatalogue(tempfile.mktemp())
NewCatalogue ==
    /\ pc = "catalogue"
    /\ attempts' = Started(<<"catalogue", 0>>)
    /\ \/ /\ file_exists' = TRUE
          /\ log' = Append(log, <<"create", catalogue_filename>>)
          /\ pc' = "screws"
          /\ idx' = 1
          /\ UNCHANGED <<raised, fpc>>
       \/ /\ Raise("IOError")
          /\ UNCHANGED <<file_exists, log, idx>>
    /\ UNCHANGED <<frame, env_name, catalogue, parts, exports, displayed, cp_coords,
                   fparts, eval, components, effect, cuts>>

\* one turn of a loop of lines 406-408 / 430-432: construct the part from
\* the entry's obj_params and add it to the catalogue
AddEntry(entries, defaults, here, next) ==
    /\ pc = here
    /\ idx \in DOMAIN entries
    /\ attempts' = Started(<<here, idx>>)
    /\ LET e == entries[idx]
           obj == Override(defaults, e.obj_params)
       IN  IF ~ParamsValid(obj)
           THEN /\ Raise("ParameterError")
                /\ UNCHANGED <<catalogue, parts, log, idx>>
           ELSE /\ parts' = parts @@ (e.id :> NewPart(obj))
                /\ IF e.id \in Ids(catalogue)
                   THEN /\ Raise("ValueError")
                        /\ UNCHANGED <<catalogue, log, idx>>
                   ELSE \/ /\ catalogue' = CatalogueAdd(catalogue, e.id, e.criteria, obj)
                           /\ log' = Append(log, <<"add", e.id>>)
                           /\ pc' = IF idx = Len(entries) THEN next ELSE here
                           /\ idx' = IF idx = Len(entries) THEN 1 ELSE idx + 1
                           /\ UNCHANGED <<raised, fpc>>
                        \/ /\ Raise("IOError")
                           /\ UNCHANGED <<catalogue, log, idx>>
    /\ UNCHANGED <<frame, env_name, file_exists, exports, displayed, cp_coords,
                   fparts, eval, components, effect, cuts>>

\* lines 406-408
AddScrew == AddEntry(screws, WoodScrewDefaults, "screws", "anchors")

\* lines 430-432
AddAnchor == AddEntry(anchors, AnchorDefaults, "anchors", "unlink")

\* OsUnlink leaving the file in place
OsUnlinkKeeps(exists) == exists

\* os.unlink: the file is removed; a missing file raises
OsUnlink(exists) == FALSE

\* line 437: os.unlink(catalogue_filename)
Unlink ==
    /\ pc = "unlink"
    /\ attempts' = Started(<<"unlink", 0>>)
    /\ IF file_exists
       THEN /\ file_exists' = OsUnlink(file_exists)
            /\ log' = Append(log, <<"unlink", catalogue_filename>>)
            /\ pc' = "models"
            /\ idx' = 0
            /\ UNCHANGED <<raised, fpc>>
       ELSE /\ Raise("OSError")
            /\ UNCHANGED <<file_exists, log, idx>>
    /\ UNCHANGED <<frame, env_name, catalogue, parts, exports, displayed, cp_coords,
                   fparts, eval, components, effect, cuts>>

\* lines 445-449: screw = WoodScrew(); anchor = Anchor();
\* together = _Together(); then the branch on env_name
Models ==
    /\ pc = "models"
    /\ attempts' = Started(<<"models", 0>>)
    /\ parts' = parts @@ ("screw" :> NewPart(WoodScrewDefaults))
                      @@ ("anchor" :> NewPart(AnchorDefaults))
    /\ pc' = Branch(env_name)
    /\ UNCHANGED <<frame, env_name, file_exists, catalogue, idx, exports, displayed,
                   cp_coords, fpc, fparts, eval, components, effect, cuts,
                   raised, log>>

\* _Together.make_components: the parts an export of `together` builds
TogetherComponents ==
    ("together.screw" :> NewPart(Override(WoodScrewDefaults, [neck_exposed |-> 50])))
        @@ ("together.anchor" :> NewPart(Override(AnchorDefaults, [height |-> 70])))

\* lines 450-452: <obj>.exporter('gltf')(<file>)
Export(here, built, file, next) ==
    /\ pc = here
    /\ attempts' = Started(<<here, 0>>)
    /\ parts' = parts @@ built
    /\ \/ /\ exports' = Append(exports, file)
          /\ log' = Append(log, <<"export", file>>)
          /\ pc' = next
          /\ UNCHANGED <<raised, fpc>>
       \/ /\ Raise("IOError")
          /\ UNCHANGED <<exports, log>>
    /\ UNCHANGED <<frame, env_name, file_exists, catalogue, idx, displayed, cp_coords,
                   fparts, eval, components, effect, cuts>>

\* line 450
ExportScrew == Export("export_screw", <<>>, "screw.gltf", "export_anchor")

\* line 451
ExportAnchor == Export("export_anchor", <<>>, "anchor.gltf", "export_together")

\* line 452
ExportTogether ==
    Export("export_together", TogetherComponents, "together.gltf", "done")

\* line 463: cp = ConnectedPlanks()
NewConnectedPlanks ==
    /\ pc = "cp_new"
    /\ attempts' = Started(<<"cp_new", 0>>)
    /\ pc' = "cp_coords"
    /\ UNCHANGED <<frame, env_name, file_exists, catalogue, idx, parts, exports,
                   displayed, cp_coords, fpc, fparts, eval, components, effect,
                   cuts, raised, log>>

\* line 464: cp.world_coords = CoordSystem.random(span=20)
SetWorldCoords ==
    /\ pc = "cp_coords"
    /\ attempts' = Started(<<"cp_coords", 0>>)
    /\ \E c \in {-200, 0, 200} : cp_coords' = <<c>>
    /\ pc' = "display"
    /\ UNCHANGED <<frame, env_name, file_exists, catalogue, idx, parts, exports,
                   displayed, fpc, fparts, eval, components, effect, cuts,
                   raised, log>>

\* WoodPanel.get_mate_edge: origin x = length / 2 - thickness / 2
get_mate_edge(panel, thickness) == (panel.length \div 2) - (thickness \div 2)

\* ConnectedPlanks.make_components: two panels and the fastener over both
PlankComponents ==
    LET panel == Override(WoodPanelDefaults, [length |-> 400, width |-> 300])
    IN  ("p1" :> NewPart(panel)) @@ ("p2" :> NewPart(panel))

\* ConnectedPlanks.make_constraints: p1 fixed at the assembly's origin, p2's
\* end on p1's edge
PlankCoords(ps, c) ==
    [ps EXCEPT
        !["p1"].world_coords = c,
        !["p2"].world_coords =
            c + get_mate_edge(ps["p1"].params, ps["p2"].params.thickness)]

\* line 465, display(cp): the assembly is built first, its components made
DisplayBuild ==
    /\ pc = "display"
    /\ fpc = "idle"
    /\ attempts' = Started(<<"display", 0>>)
    /\ parts' = parts @@ PlankComponents
    /\ fparts' = {"p1", "p2"}
    /\ fpc' = "place"
    /\ UNCHANGED <<frame, pc, env_name, file_exists, catalogue, idx, exports,
                   displayed, cp_coords, eval, components, effect, cuts,
                   raised, log>>

\* display(cp): the panels are placed by the assembly's constraints
PlacePanels ==
    /\ pc = "display"
    /\ fpc = "place"
    /\ parts' = PlankCoords(parts, cp_coords[1])
    /\ fpc' = "evaluate"
    /\ UNCHANGED <<frame, pc, env_name, file_exists, catalogue, idx, exports,
                   displayed, cp_coords, fparts, eval, components, effect,
                   cuts, raised, attempts, log>>

\* Fastener build: the evaluator finds the effects
Evaluate ==
    /\ fpc = "evaluate"
    /\ \E ev \in EvalLists(fparts, Cardinality(fparts)) : eval' = ev
    /\ fpc' = "select"
    /\ UNCHANGED <<frame, pc, env_name, file_exists, catalogue, idx, parts, exports,
                   displayed, cp_coords, fparts, components, effect, cuts,
                   raised, attempts, log>>

\* Fastener build: Selector.get_components. The anchor is constructed
\* first (line 243), so it exists also when the function raises.
Select ==
    /\ fpc = "select"
    /\ LET r == GetComponents(eval)
       IN  IF r.raised # "none"
           THEN /\ Raise(r.raised)
                /\ parts' = parts @@ ("fastener.anchor" :> NewPart(AnchorDefaults))
                /\ UNCHANGED components
           ELSE /\ parts' = parts @@ ("fastener.anchor" :> NewPart(r.anchor))
                                  @@ ("fastener.screw" :> NewPart(r.screw))
                /\ components' = {"anchor", "screw"}
                /\ fpc' = "constrain"
                /\ UNCHANGED <<pc, raised>>
    /\ UNCHANGED <<frame, env_name, file_exists, catalogue, idx, exports, displayed,
                   cp_coords, fparts, eval, effect, cuts, attempts, log>>

\* Fastener build: Selector.get_constraints places the screw and the anchor
Constrain ==
    /\ fpc = "constrain"
    /\ parts' =
         [parts EXCEPT
            !["fastener.screw"].world_coords =
                ScrewCoords(eval, parts["fastener.screw"].params),
            !["fastener.anchor"].world_coords =
                ScrewCoords(eval, parts["fastener.screw"].params)]
    /\ fpc' = "screw_cuts"
    /\ effect' = 1
    /\ UNCHANGED <<frame, pc, env_name, file_exists, catalogue, idx, exports,
                   displayed, cp_coords, fparts, eval, components, cuts,
                   raised, attempts, log>>

\* Cut that also takes the cutter's diameter off the part's thickness
CutResizing(ps, p, tool, cutter) ==
    [ps EXCEPT ![p].local_obj =
                  Append(@, [cutter |-> cutter,
                             at |-> ps[tool].world_coords - ps[p].world_coords]),
               ![p].params.thickness = @ - cutter.diam]

\* effect.part.local_obj = effect.part.local_obj.cut(coordsys + cutter)
Cut(ps, p, tool, cutter) ==
    [ps EXCEPT ![p].local_obj =
        Append(@, [cutter |-> cutter,
                   at |-> ps[tool].world_coords - ps[p].world_coords])]

\* lines 296-298: one turn of the loop over the effects, the screw's cutter
ScrewCut ==
    /\ fpc = "screw_cuts"
    /\ effect \in 1..Len(eval)
    /\ parts' = Cut(parts, eval[effect].part, "fastener.screw",
                    WoodScrewCutter(parts["fastener.screw"].params))
    /\ cuts' = Append(cuts, <<eval[effect].part, "screw">>)
    /\ effect' = effect + 1
    /\ UNCHANGED <<frame, pc, env_name, file_exists, catalogue, idx, exports,
                   displayed, cp_coords, fpc, fparts, eval, components, raised,
                   attempts, log>>

\* line 296: the loop over eval is exhausted
ScrewCutsDone ==
    /\ fpc = "screw_cuts"
    /\ effect > Len(eval)
    /\ fpc' = "anchor_cuts"
    /\ effect' = 1
    /\ UNCHANGED <<frame, pc, env_name, file_exists, catalogue, idx, parts, exports,
                   displayed, cp_coords, fparts, eval, components, cuts, raised,
                   attempts, log>>

\* eval[1:]
AllButFirst(ev) == SubSeq(ev, 2, Len(ev))

\* eval[:-1]
AllButLast(ev) == SubSeq(ev, 1, Len(ev) - 1)

\* lines 301-303: one turn of the loop over eval[:-1], the anchor's cutter
AnchorCut ==
    /\ fpc = "anchor_cuts"
    /\ effect \in 1..Len(AllButLast(eval))
    /\ parts' = Cut(parts, AllButLast(eval)[effect].part, "fastener.anchor",
                    AnchorCutter(parts["fastener.anchor"].params))
    /\ cuts' = Append(cuts, <<AllButLast(eval)[effect].part, "anchor">>)
    /\ effect' = effect + 1
    /\ UNCHANGED <<frame, pc, env_name, file_exists, catalogue, idx, exports,
                   displayed, cp_coords, fpc, fparts, eval, components, raised,
                   attempts, log>>

\* line 301: the loop over eval[:-1] is exhausted, apply_alterations returns
AnchorCutsDone ==
    /\ fpc = "anchor_cuts"
    /\ effect > Len(AllButLast(eval))
    /\ fpc' = "built"
    /\ effect' = 0
    /\ UNCHANGED <<frame, pc, env_name, file_exists, catalogue, idx, parts, exports,
                   displayed, cp_coords, fparts, eval, components, cuts, raised,
                   attempts, log>>

\* line 465, display(cp): the built assembly is shown
DisplayShow ==
    /\ pc = "display"
    /\ fpc = "built"
    /\ \/ /\ displayed' = Append(displayed, "ConnectedPlanks")
          /\ log' = Append(log, <<"display", "ConnectedPlanks">>)
          /\ pc' = "done"
          /\ fpc' = "idle"
          /\ UNCHANGED raised
       \/ /\ Raise("DisplayError")
          /\ UNCHANGED <<displayed, log>>
    /\ UNCHANGED <<frame, env_name, file_exists, catalogue, idx, parts, exports,
                   cp_coords, fparts, eval, components, effect, cuts, attempts>>

\* the fastener's build
NextFastener ==
    \/ Evaluate
    \/ Select
    \/ Constrain
    \/ ScrewCut
    \/ ScrewCutsDone
    \/ AnchorCut
    \/ AnchorCutsDone

Next ==
    \/ NewCatalogue
    \/ AddScrew
    \/ AddAnchor
    \/ Unlink
    \/ Models
    \/ ExportScrew
    \/ ExportAnchor
    \/ ExportTogether
    \/ NewConnectedPlanks
    \/ SetWorldCoords
    \/ DisplayBuild
    \/ PlacePanels
    \/ NextFastener
    \/ DisplayShow

Spec == Init /\ [][Next]_vars

\* EasyInstallFastener(parts=...) over any three placed panels
Panels == {"p1", "p2", "p3"}

InitFastener ==
    /\ pc = "display"
    /\ env_name = "freecad"
    /\ file_exists = FALSE
    /\ catalogue = <<>>
    /\ idx = 0
    /\ parts \in [Panels -> {[NewPart(WoodPanelDefaults) EXCEPT !.world_coords = c] :
                               c \in {0, 125}}]
    /\ exports = <<>>
    /\ displayed = <<>>
    /\ cp_coords = <<0>>
    /\ fpc = "evaluate"
    /\ fparts = Panels
    /\ eval = <<>>
    /\ components = {}
    /\ effect = 0
    /\ cuts = <<>>
    /\ frame = <<>>
    /\ raised = "none"
    /\ attempts = <<>>
    /\ log = <<>>

SpecFastener == InitFastener /\ [][NextFastener]_vars

----------------------------------------------------------------------------
(* WoodScrew.make *)

\* the variables WoodScrew.make and Anchor.make do not touch
otherVars == <<env_name, file_exists, catalogue, exports, displayed,
               cp_coords, fpc, fparts, eval, components, effect, cuts,
               raised, attempts, log>>

\* Workplane('XY', origin=(x, 0, z)).circle(r).extrude(d): a cylinder about
\* the vertical through (x, 0), from the plane at z to z + d
Extrude(x, z, r, d) == [x |-> x, r |-> r, from |-> z, to |-> z + d]

\* lines 56-58: the bore cylinder
BoreSolid(screw) ==
    Extrude(0, -screw.neck_length, screw.bore_diam \div 2,
            screw.neck_length - screw.neck_exposed)

\* SliceSolid with the extrusion upwards
SliceSolidUp(screw, angle) ==
    [solid |-> Extrude(screw.bore_diam \div 2, -(screw.neck_exposed + 20),
                       screw.bore_diam \div 3,
                       screw.neck_length - screw.neck_exposed - 40),
     angle |-> angle]

\* lines 61-66: one relief slice, rotated by `angle` about the z axis
SliceSolid(screw, angle) ==
    [solid |-> Extrude(screw.bore_diam \div 2, -(screw.neck_exposed + 20),
                       screw.bore_diam \div 3,
                       -(screw.neck_length - screw.neck_exposed - 40)),
     angle |-> angle]

\* line 60: [i * (360 / 3) for i in range(3)]
SliceAngles == [i \in 1..3 |-> (i - 1) * (360 \div 3)]

\* lines 53-58: screw = super(WoodScrew, self).make(); bore = ...
MakeBore ==
    /\ pc = "WoodScrew.make"
    /\ frame' = [screw |-> <<"MaleFastenerPart.make">>,
                 bore |-> BoreSolid(parts["screw"].params),
                 cut |-> <<>>]
    /\ idx' = 1
    /\ pc' = "WoodScrew.make:slices"
    /\ UNCHANGED <<parts, otherVars>>

\* lines 60-67: one turn of the loop, bore = bore.cut(slice_obj)
MakeSlice ==
    /\ pc = "WoodScrew.make:slices"
    /\ idx \in DOMAIN SliceAngles
    /\ frame' = [frame EXCEPT
                   !.cut = Append(@, SliceSolid(parts["screw"].params,
                                               SliceAngles[idx]))]
    /\ idx' = idx + 1
    /\ UNCHANGED <<pc, parts, otherVars>>

\* lines 68-70: screw = screw.union(bore); return screw
MakeUnion ==
    /\ pc = "WoodScrew.make:slices"
    /\ idx \notin DOMAIN SliceAngles
    /\ frame' = [frame EXCEPT
                   !.screw = Append(@, [solid |-> frame.bore, cut |-> frame.cut])]
    /\ idx' = 0
    /\ pc' = "WoodScrew.made"
    /\ UNCHANGED <<parts, otherVars>>

NextScrew ==
    \/ MakeBore
    \/ MakeSlice
    \/ MakeUnion

\* neck_length and neck_exposed: 0 to 2 * MaxNeck mm, in steps of 2 mm
MaxNeck == 5
NeckLengths == {20 * k : k \in 0..MaxNeck}

\* WoodScrew(neck_length=..., neck_exposed=...).make()
InitScrew ==
    /\ pc = "WoodScrew.make"
    /\ env_name = "cmdline"
    /\ file_exists = FALSE
    /\ catalogue = <<>>
    /\ idx = 0
    /\ \E nl \in NeckLengths, ne \in NeckLengths :
          parts = ("screw" :> NewPart(Override(WoodScrewDefaults,
                                       [neck_length |-> nl, neck_exposed |-> ne])))
    /\ exports = <<>>
    /\ displayed = <<>>
    /\ cp_coords = <<>>
    /\ fpc = "idle"
    /\ fparts = {}
    /\ eval = <<>>
    /\ components = {}
    /\ effect = 0
    /\ cuts = <<>>
    /\ frame = <<>>
    /\ raised = "none"
    /\ attempts = <<>>
    /\ log = <<>>

SpecScrew == InitScrew /\ [][NextScrew]_vars

----------------------------------------------------------------------------
(* Natural numbers of any size: limbs in base 4096, least significant
   first, the last limb not 0 (zero is the empty sequence). *)

RECURSIVE LTrim(_)
LTrim(a) == IF a = <<>> \/ a[Len(a)] # 0 THEN a ELSE LTrim(SubSeq(a, 1, Len(a) - 1))

RECURSIVE LFromInt(_)
LFromInt(n) == IF n = 0 THEN <<>> ELSE <<n % 4096>> \o LFromInt(n \div 4096)

Limb(a, i) == IF i <= Len(a) THEN a[i] ELSE 0

RECURSIVE LAddFrom(_, _, _, _)
LAddFrom(a, b, i, c) ==
    IF i > Len(a) /\ i > Len(b)
    THEN (IF c = 0 THEN <<>> ELSE <<c>>)
    ELSE LET t == Limb(a, i) + Limb(b, i) + c
         IN  <<t % 4096>> \o LAddFrom(a, b, i + 1, t \div 4096)

LAdd(a, b) == LAddFrom(a, b, 1, 0)

\* a - b for a >= b
RECURSIVE LSubFrom(_, _, _, _)
LSubFrom(a, b, i, c) ==
    IF i > Len(a) THEN <<>>
    ELSE LET t == a[i] - Limb(b, i) - c
         IN  <<t % 4096>> \o LSubFrom(a, b, i + 1, IF t < 0 THEN 1 ELSE 0)

LSub(a, b) == LTrim(LSubFrom(a, b, 1, 0))

RECURSIVE LLessFrom(_, _, _)
LLessFrom(a, b, i) ==
    IF i = 0 THEN FALSE
    ELSE IF a[i] # b[i] THEN a[i] < b[i] ELSE LLessFrom(a, b, i - 1)

LLess(a, b) ==
    IF Len(a) # Len(b) THEN Len(a) < Len(b) ELSE LLessFrom(a, b, Len(a))

\* a * k + c for 0 <= k, c < 4096
RECURSIVE LMulSmallFrom(_, _, _, _)
LMulSmallFrom(a, k, i, c) ==
    IF i > Len(a) THEN (IF c = 0 THEN <<>> ELSE <<c>>)
    ELSE LET t == a[i] * k + c
         IN  <<t % 4096>> \o LMulSmallFrom(a, k, i + 1, t \div 4096)

LMulSmall(a, k) == IF k = 0 THEN <<>> ELSE LMulSmallFrom(a, k, 1, 0)

LShiftLimbs(a, q) == IF a = <<>> THEN a ELSE [i \in 1..q |-> 0] \o a

RECURSIVE LMulFrom(_, _, _)
LMulFrom(a, b, i) ==
    IF i > Len(b) THEN <<>>
    ELSE LAdd(LMulSmall(a, b[i]), LShiftLimbs(LMulFrom(a, b, i + 1), 1))

LMul(a, b) == LMulFrom(a, b, 1)

\* a divided by n, 0 < n < 2^19: [q, r]
RECURSIVE LDivSmallFrom(_, _, _, _)
LDivSmallFrom(a, n, i, r) ==
    IF i = 0 THEN [q |-> <<>>, r |-> r]
    ELSE LET t == r * 4096 + a[i]
             rest == LDivSmallFrom(a, n, i - 1, t % n)
         IN  [q |-> Append(rest.q, t \div n), r |-> rest.r]

LDivSmall(a, n) ==
    LET d == LDivSmallFrom(a, n, Len(a), 0) IN [q |-> LTrim(d.q), r |-> d.r]

\* a * 2^k and a \div 2^k
LShl(a, k) == LShiftLimbs(LMulSmall(a, 2 ^ (k % 12)), k \div 12)

LShr(a, k) ==
    IF k \div 12 >= Len(a) THEN <<>>
    ELSE LDivSmall(SubSeq(a, (k \div 12) + 1, Len(a)), 2 ^ (k % 12)).q

\* the number of bits of a
LBitLen(a) ==
    IF a = <<>> THEN 0
    ELSE 12 * (Len(a) - 1)
           + (CHOOSE k \in 1..12 : 2 ^ (k - 1) <= a[Len(a)] /\ a[Len(a)] < 2 ^ k)

(* Python floats: IEEE 754 binary64. A float is sign * m * 2^e with m of
   exactly Precision bits, or zero; every operation rounds its exact result
   to the nearest float, ties to the even one. *)
Precision == 53

Zero == [sign |-> 0, m |-> <<>>, e |-> 0]

Round(sign, num, e) ==
    IF num = <<>> \/ sign = 0 THEN Zero
    ELSE LET L == LBitLen(num) IN
         IF L <= Precision
         THEN [sign |-> sign, m |-> LShl(num, Precision - L),
               e |-> e - (Precision - L)]
         ELSE LET drop == L - Precision
                  kept == LShr(num, drop)
                  twice == LShl(LSub(num, LShl(kept, drop)), 1)
                  half == LShl(<<1>>, drop)
                  up == LLess(half, twice) \/ (twice = half /\ kept[1] % 2 = 1)
                  m1 == IF up THEN LAdd(kept, <<1>>) ELSE kept
              IN  IF LBitLen(m1) > Precision
                  THEN [sign |-> sign, m |-> LShr(m1, 1), e |-> e + drop + 1]
                  ELSE [sign |-> sign, m |-> m1, e |-> e + drop]

\* float(n)
FromInt(n) ==
    Round(IF n < 0 THEN -1 ELSE IF n = 0 THEN 0 ELSE 1,
          LFromInt(IF n < 0 THEN -n ELSE n), 0)

FNeg(x) == [x EXCEPT !.sign = -x.sign]

\* x * y
FMul(x, y) == Round(x.sign * y.sign, LMul(x.m, y.m), x.e + y.e)

\* x / n for an integer n > 0 (n < 2^12)
FDivInt(x, n) ==
    LET d == LDivSmall(LShl(x.m, 16), n)
        num == LAdd(LShl(d.q, 1), IF d.r = 0 THEN <<>> ELSE <<1>>)
    IN  Round(x.sign, num, x.e - 17)

\* the exact sum of two numbers [sign, m, e], not rounded
DAdd(x, y) ==
    IF x.sign = 0 THEN y
    ELSE IF y.sign = 0 THEN x
    ELSE LET e == IF x.e < y.e THEN x.e ELSE y.e
             ax == LShl(x.m, x.e - e)
             ay == LShl(y.m, y.e - e)
         IN  IF x.sign = y.sign
             THEN [sign |-> x.sign, m |-> LAdd(ax, ay), e |-> e]
             ELSE IF ax = ay THEN Zero
             ELSE IF LLess(ay, ax)
                  THEN [sign |-> x.sign, m |-> LSub(ax, ay), e |-> e]
                  ELSE [sign |-> y.sign, m |-> LSub(ay, ax), e |-> e]

\* x + y and x - y
FAdd(x, y) == LET d == DAdd(x, y) IN Round(d.sign, d.m, d.e)

FSub(x, y) == FAdd(x, FNeg(y))

\* x < y, exactly
DLess(x, y) == DAdd(x, FNeg(y)).sign < 0

\* math.pi: float.hex(pi) = 0x1.921fb54442d18p+1
Pi == [sign |-> 1, m |-> <<3352, 1090, 2900, 543, 25>>, e |-> -51]

\* the exact product of a number [sign, m, e] and an integer
DScale(x, k) ==
    IF k = 0 \/ x.sign = 0 THEN Zero
    ELSE [sign |-> IF k < 0 THEN -x.sign ELSE x.sign,
          m |-> LMul(x.m, LFromInt(IF k < 0 THEN -k ELSE k)), e |-> x.e]

\* |x| and x * 2^p, exactly
DAbs(x) == [x EXCEPT !.sign = IF x.sign = 0 THEN 0 ELSE 1]

DShift(x, p) == [x EXCEPT !.e = @ + p]

\* the float of a length kept in tenths, and of a ratio kept in hundredths:
\* the float nearest to the decimal, as a literal is read
Tenths(t) == FDivInt(FromInt(t), 10)

Hundredths(h) == FDivInt(FromInt(h), 100)

----------------------------------------------------------------------------
(* Anchor.make *)

\* Anchor.wedge_radii: (diameter / 2) * ratio
wedge_radii(anchor) ==
    [start_r |-> FMul(FDivInt(Tenths(anchor.diameter), 2),
                      Hundredths(anchor.ratio_start)),
     end_r |-> FMul(FDivInt(Tenths(anchor.diameter), 2),
                    Hundredths(anchor.ratio_end))]

\* range(0, spline_point_count)
SplineRangeFromZero(n) == [k \in 1..n |-> k - 1]

\* line 150: range(1, self.spline_point_count + 1)
SplineRange(n) == [k \in 1..n |-> k]

\* lines 146-149: the (angle, radius) the generator yields for i
AngleRadius(i, n, start_r, end_r) ==
    [angle |-> FMul(FromInt(i), FDivInt(Pi, n)),
     radius |-> FAdd(start_r,
                     FMul(FSub(end_r, start_r), FDivInt(FromInt(i), n)))]

\* lines 126-141: the cylinder, less the neck slot
MakeBody ==
    /\ pc = "Anchor.make"
    /\ frame' = [obj |-> <<"cylinder", "neck slot">>, start_r |-> Zero,
                 end_r |-> Zero, points |-> <<>>]
    /\ pc' = "Anchor.make:wedge"
    /\ UNCHANGED <<idx, parts, otherVars>>

\* line 144: (start_r, end_r) = self.wedge_radii
MakeWedge ==
    /\ pc = "Anchor.make:wedge"
    /\ frame' = [frame EXCEPT
                   !.start_r = wedge_radii(parts["anchor"].params).start_r,
                   !.end_r = wedge_radii(parts["anchor"].params).end_r]
    /\ idx' = 1
    /\ pc' = "Anchor.make:spline"
    /\ UNCHANGED <<parts, otherVars>>

\* lines 145-152: the next (angle, radius) of the generator, made a point
SplinePoint ==
    /\ pc = "Anchor.make:spline"
    /\ LET n == parts["anchor"].params.spline_point_count
       IN  /\ idx \in DOMAIN SplineRange(n)
           /\ frame' = [frame EXCEPT
                          !.points = Append(@, AngleRadius(SplineRange(n)[idx], n,
                                                          frame.start_r, frame.end_r))]
    /\ idx' = idx + 1
    /\ UNCHANGED <<pc, parts, otherVars>>

\* lines 153-172: the head slot cut along the spline, the access port, the
\* drive; return obj
MakeHeadSlot ==
    /\ pc = "Anchor.make:spline"
    /\ idx \notin DOMAIN SplineRange(parts["anchor"].params.spline_point_count)
    /\ frame' = [frame EXCEPT
                   !.obj = @ \o <<"head slot", "access port", "drive">>]
    /\ idx' = 0
    /\ pc' = "Anchor.made"
    /\ UNCHANGED <<parts, otherVars>>

NextAnchor ==
    \/ MakeBody
    \/ MakeWedge
    \/ SplinePoint
    \/ MakeHeadSlot

\* spline_point_count: 4 to MaxSpline, and 25
MaxSpline == 6
SplineCounts == (4..MaxSpline) \cup {25}

\* Anchor(diameter=..., ratio_start=..., ratio_end=...,
\*        spline_point_count=...).make()
InitAnchor ==
    /\ pc = "Anchor.make"
    /\ env_name = "cmdline"
    /\ file_exists = FALSE
    /\ catalogue = <<>>
    /\ idx = 0
    /\ \E d \in {100, 150}, rs \in {50, 99}, re \in {1, 50, 70}, n \in SplineCounts :
          LET anchor == Override(AnchorDefaults,
                                 [diameter |-> d, ratio_start |-> rs,
                                  ratio_end |-> re, spline_point_count |-> n])
          IN  /\ ParamsValid(anchor)
              /\ parts = ("anchor" :> NewPart(anchor))
    /\ exports = <<>>
    /\ displayed = <<>>
    /\ cp_coords = <<>>
    /\ fpc = "idle"
    /\ fparts = {}
    /\ eval = <<>>
    /\ components = {}
    /\ effect = 0
    /\ cuts = <<>>
    /\ frame = <<>>
    /\ raised = "none"
    /\ attempts = <<>>
    /\ log = <<>>

SpecAnchor == InitAnchor /\ [][NextAnchor]_vars

----------------------------------------------------------------------------
(* Properties of the script *)

\* the positions in the log of the operations of one kind
LogAt(kind) == {i \in DOMAIN log : log[i][1] = kind}

\* the script has ended: normally, or by an exception
Ended == pc \in {"done", "failed"}

IsPrefix(a, b) == Len(a) <= Len(b) /\ a = SubSeq(b, 1, Len(a))

C2_GatedByEnv ==
    /\ env_name = "cmdline" =>
          /\ IsPrefix(exports, <<"screw.gltf", "anchor.gltf", "together.gltf">>)
          /\ pc = "done" => Len(exports) = 3
          /\ displayed = <<>>
    /\ env_name = "freecad" =>
          /\ exports = <<>>
          /\ IsPrefix(displayed, <<"ConnectedPlanks">>)
          /\ pc = "done" => Len(displayed) = 1
    /\ env_name \notin {"cmdline", "freecad"} =>
          /\ exports = <<>>
          /\ displayed = <<>>

C2_Witness ==
    /\ pc = "done"
    /\ env_name = "cmdline"
    /\ exports = <<"screw.gltf", "anchor.gltf", "together.gltf">>

\* C3: a failure ends the script. Once an exception is raised the script is
\* at "failed", no statement was started twice, and no step follows: the
\* catalogue, the file, the exports, the display and the parts stay as the
\* failure left them.
C3_FailureEndsScript ==
    /\ [](/\ raised # "none" <=> pc = "failed"
          /\ \A k \in DOMAIN attempts : attempts[k] = 1)
    /\ [][raised # "none" => UNCHANGED vars]_vars

C3_Witness ==
    /\ raised = "ParameterError"
    /\ pc = "failed"
    /\ Len(catalogue) = 4
    /\ ~file_exists
    /\ displayed = <<>>

\* C4: the declared parameters of a part never change once it is
\* constructed, and a part never disappears; its local_obj changes only in
\* the Applicator's loops.
C4_ParametersImmutable ==
    [][\A p \in DOMAIN parts :
          /\ p \in DOMAIN parts'
          /\ parts'[p].params = parts[p].params
          /\ parts'[p].local_obj # parts[p].local_obj =>
                fpc \in {"screw_cuts", "anchor_cuts"}]_vars

C4_Witness ==
    /\ pc = "done"
    /\ "p1" \in DOMAIN parts
    /\ parts["p1"].local_obj # <<>>
    /\ parts["p2"].world_coords # 0
    /\ parts["p1"].params = Override(WoodPanelDefaults, [length |-> 400, width |-> 300])

\* C5: the catalogue holds screws before anchors under pairwise distinct
\* ids, each add was made once; once all adds are done it holds four items,
\* two screws then two anchors, and every screw's compatible_anchor is the
\* id of an item of type 'anchor'.
AddsDone ==
    \/ pc \notin {"catalogue", "screws", "anchors", "failed"}
    \/ pc = "failed" /\ LogAt("unlink") # {}

C5_CatalogueEntries ==
    /\ Cardinality(Ids(catalogue)) = Len(catalogue)
    /\ Cardinality(LogAt("add")) = Len(catalogue)
    /\ \A i, j \in DOMAIN catalogue :
          i < j => ~(catalogue[i].criteria.type = "anchor"
                     /\ catalogue[j].criteria.type = "screw")
    /\ \A i \in DOMAIN catalogue :
          /\ catalogue[i].criteria.type \in {"screw", "anchor"}
          /\ catalogue[i].id \in DOMAIN parts
          /\ catalogue[i].obj = parts[catalogue[i].id].params
    /\ AddsDone =>
          /\ Len(catalogue) = 4
          /\ \A i \in 1..2 : catalogue[i].criteria.type = "screw"
          /\ \A i \in 3..4 : catalogue[i].criteria.type = "anchor"
          /\ \A i \in 1..2 :
                \E j \in DOMAIN catalogue :
                   /\ catalogue[j].id = catalogue[i].criteria.compatible_anchor
                   /\ catalogue[j].criteria.type = "anchor"

C5_Witness ==
    /\ pc = "unlink"
    /\ Len(catalogue) = 4
    /\ file_exists

----------------------------------------------------------------------------
(* Properties of the fastener *)

\* get_components has returned or raised
Selected == fpc \notin {"idle", "place", "evaluate", "select"}

\* the distance between the first and the last effect's start points
StackLength == eval[Len(eval)].start_point - eval[1].start_point

\* the last effect's own length
LastLength == eval[Len(eval)].end_point - eval[Len(eval)].start_point

Cutters(p) == [i \in DOMAIN parts[p].local_obj |-> parts[p].local_obj[i].cutter.of]

\* the parts of a list of effects
EffectParts(ev) == {ev[i].part : i \in DOMAIN ev}

\* C7: apply_alterations makes every screw cut before any anchor cut; when
\* it has returned, the last effect's part has had the screw's cutter cut
\* from it and nothing else, every other effect's part the screw's and then
\* the anchor's cutter, and a part of no effect is as it was.
C7_CutsPerEffect ==
    /\ \A i, j \in DOMAIN cuts :
          i < j => ~(cuts[i][2] = "anchor" /\ cuts[j][2] = "screw")
    /\ fpc = "built" =>
          /\ Len(cuts) = 2 * Len(eval) - 1
          /\ \A p \in fparts :
                IF p = eval[Len(eval)].part THEN Cutters(p) = <<"screw">>
                ELSE IF p \in EffectParts(eval)
                     THEN Cutters(p) = <<"screw", "anchor">>
                     ELSE parts[p].local_obj = <<>>

C7_Witness ==
    /\ fpc = "built"
    /\ Len(eval) = 2
    /\ \E p \in fparts : p \notin EffectParts(eval) /\ parts[p].local_obj = <<>>
    /\ Cutters(eval[1].part) = <<"screw", "anchor">>
    /\ Cutters(eval[2].part) = <<"screw">>

----------------------------------------------------------------------------
(* Properties of WoodScrew.make *)

\* C9: the bore starts at -neck_length, where mate_threadstart is, and ends
\* at -neck_exposed; three slices are cut from it, at 0, 120 and 240
\* degrees, each from -(neck_exposed + 2) to -(neck_length - 2); when
\* neck_length - neck_exposed > 4 every slice lies inside the bore's range
\* with a margin of 2 mm at each end.
C9_BoreAndSlices ==
    pc # "WoodScrew.make" =>
        LET screw == parts["screw"].params
            nl == screw.neck_length
            ne == screw.neck_exposed
        IN  /\ frame.bore.from = -nl
            /\ frame.bore.from = mate_threadstart(screw)
            /\ frame.bore.to = -ne
            /\ Len(frame.cut) <= 3
            /\ \A i \in DOMAIN frame.cut :
                  /\ frame.cut[i].angle = 120 * (i - 1)
                  /\ frame.cut[i].solid.from = -(ne + 20)
                  /\ frame.cut[i].solid.to = -(nl - 20)
                  /\ nl - ne > 40 =>
                        /\ frame.bore.from < frame.cut[i].solid.to
                        /\ frame.cut[i].solid.to < frame.cut[i].solid.from
                        /\ frame.cut[i].solid.from < frame.bore.to
                        /\ frame.cut[i].solid.to - frame.bore.from = 20
                        /\ frame.bore.to - frame.cut[i].solid.from = 20
            /\ pc = "WoodScrew.made" =>
                  /\ Len(frame.cut) = 3
                  /\ frame.screw[2] = [solid |-> frame.bore, cut |-> frame.cut]

C9_Witness ==
    /\ pc = "WoodScrew.made"
    /\ parts["screw"].params.neck_length = 100
    /\ parts["screw"].params.neck_exposed = 20
    /\ Len(frame.cut) = 3
    /\ frame.cut[3].angle = 240

----------------------------------------------------------------------------
(* Properties of Anchor.make *)

\* |x| <= y, exactly
DWithin(x, y) == ~DLess(y, DAbs(x))

====
